---- MODULE Spec2Model ----
(***************************************************************************)
(* Model of generate_answer_template.py: the PLAN / ACT / OBSERVE /        *)
(* REFLECT question answering loop (agent_loop), its pure helpers          *)
(* (get_question_text, plan_queries, extract_answer, score_candidate),     *)
(* the two Wikipedia wrappers and the batch driver build_answers.          *)
(*                                                                         *)
(* Python str values are sequences of one-character strings.  Arbitrary    *)
(* Python / JSON values are records [kind, s, n] (see StrV, IntV, None).     *)
(***************************************************************************)
EXTENDS Integers, Sequences, FiniteSets, TLC

VARIABLES
    caller,       \* "build_answers" or "direct": who invoked agent_loop
    questions,    \* build_answers: the list of input records
    idx,          \* build_answers: number of records already consumed
    answers,      \* build_answers: the list of output records
    bpc,          \* build_answers: position ("loop","call","done","raised","off")
    pc,           \* agent_loop: position
    question,     \* agent_loop: the argument (a Python value)
    q,            \* agent_loop: the trimmed question
    plans,        \* agent_loop: the candidate list
    step,         \* agent_loop: number of candidates taken from plans
    results,      \* agent_loop: what search_wikipedia returned
    ranked,       \* agent_loop: sorted(results, ...)
    content,      \* agent_loop: what get_wikipedia_summary returned
    best_answer,  \* agent_loop: the accepted answer ("" while none)
    ret,          \* agent_loop: the returned value
    calls,        \* the network calls issued by the current agent_loop run
    fpc,          \* pure-function harness: position
    arg,          \* pure-function harness: first argument
    arg2,         \* pure-function harness: second argument
    out           \* pure-function harness: result

vars == <<caller, questions, idx, answers, bpc, pc, question, q, plans, step,
          results, ranked, content, best_answer, ret, calls, fpc, arg, arg2, out>>

batchVars == <<caller, questions, idx, answers, bpc>>
loopVars == <<pc, question, q, plans, step, results, ranked, content,
              best_answer, ret, calls>>
fnVars == <<fpc, arg, arg2, out>>

(***************************************************************************)
(* Characters and strings                                                  *)
(***************************************************************************)
UpperSeq == <<"A","B","C","D","E","F","G","H","I","J","K","L","M",
              "N","O","P","Q","R","S","T","U","V","W","X","Y","Z">>
LowerSeq == <<"a","b","c","d","e","f","g","h","i","j","k","l","m",
              "n","o","p","q","r","s","t","u","v","w","x","y","z">>
DigitSeq == <<"0","1","2","3","4","5","6","7","8","9">>

RangeOf(s) == {s[i] : i \in 1..Len(s)}

UpperChars == RangeOf(UpperSeq)
LowerChars == RangeOf(LowerSeq)
DigitChars == RangeOf(DigitSeq)
WhitespaceChars == {" ", "\t", "\n"}
\* \w of the re module, restricted to ASCII
WordChars == UpperChars \cup LowerChars \cup DigitChars \cup {"_"}
\* [A-Za-z0-9]
AlnumChars == UpperChars \cup LowerChars \cup DigitChars

\* str.lower() on one character
LowerChar(c) ==
    IF c \in UpperChars
    THEN LowerSeq[CHOOSE i \in 1..Len(UpperSeq) : UpperSeq[i] = c]
    ELSE c

\* str.lower()
Lower(s) == [i \in 1..Len(s) |-> LowerChar(s[i])]

\* int() of one decimal digit
DigitVal(c) == (CHOOSE i \in 1..Len(DigitSeq) : DigitSeq[i] = c) - 1

\* s[a..b] with 1-based inclusive bounds, empty when a > b
Slice(s, a, b) == IF a > b THEN <<>> ELSE SubSeq(s, a, b)

\* Python's seq[:n]: the first n items, or all but the last -n when n < 0
PyPrefix(s, n) ==
    IF n >= 0
    THEN Slice(s, 1, IF n < Len(s) THEN n ELSE Len(s))
    ELSE Slice(s, 1, IF Len(s) + n > 0 THEN Len(s) + n ELSE 0)

\* str.strip()
Strip(s) ==
    LET keep == {i \in 1..Len(s) : s[i] \notin WhitespaceChars}
    IN  IF keep = {} THEN <<>>
        ELSE Slice(s, CHOOSE i \in keep : \A j \in keep : i <= j,
                      CHOOSE i \in keep : \A j \in keep : j <= i)

RECURSIVE SplitOn(_, _, _)
\* str.split(sep) for a one-character sep: the pieces of s between the
\* separators, empty pieces included; cur is the piece being collected
SplitOn(s, sep, cur) ==
    IF s = <<>> THEN <<cur>>
    ELSE IF Head(s) = sep THEN <<cur>> \o SplitOn(Tail(s), sep, <<>>)
    ELSE SplitOn(Tail(s), sep, Append(cur, Head(s)))

RECURSIVE SplitWs(_, _)
\* str.split(): the maximal runs of non-whitespace characters
SplitWs(s, cur) ==
    IF s = <<>> THEN (IF cur = <<>> THEN <<>> ELSE <<cur>>)
    ELSE IF Head(s) \in WhitespaceChars
         THEN (IF cur = <<>> THEN <<>> ELSE <<cur>>) \o SplitWs(Tail(s), <<>>)
    ELSE SplitWs(Tail(s), Append(cur, Head(s)))

RECURSIVE Join(_, _)
\* sep.join(parts)
Join(parts, sep) ==
    IF parts = <<>> THEN <<>>
    ELSE IF Len(parts) = 1 THEN parts[1]
    ELSE parts[1] \o sep \o Join(Tail(parts), sep)

\* str.endswith(".")
EndsWithDot(s) == s # <<>> /\ s[Len(s)] = "."

\* keep the items of a sequence that satisfy a test
RECURSIVE NonEmptyOnly(_)
NonEmptyOnly(parts) ==
    IF parts = <<>> THEN <<>>
    ELSE IF Head(parts) = <<>> THEN NonEmptyOnly(Tail(parts))
    ELSE <<Head(parts)>> \o NonEmptyOnly(Tail(parts))

\* \b of the re module at the gap before position i (1-based) of s
WordBoundary(s, i) ==
    LET before == i > 1 /\ i - 1 <= Len(s) /\ s[i - 1] \in WordChars
        after == i >= 1 /\ i <= Len(s) /\ s[i] \in WordChars
    IN  before # after

\* the two sentinel answers
InfoNotAvailable ==
    <<"I","n","f","o","r","m","a","t","i","o","n"," ","n","o","t"," ",
      "a","v","a","i","l","a","b","l","e">>
ErrorProcessing ==
    <<"E","r","r","o","r"," ","p","r","o","c","e","s","s","i","n","g"," ",
      "q","u","e","s","t","i","o","n">>

(***************************************************************************)
(* plan_queries                                                            *)
(***************************************************************************)
RECURSIVE FindQuoted(_, _)
\* re.findall(r'"([^"]+)"', s) scanning from position i
FindQuoted(s, i) ==
    IF i > Len(s) THEN <<>>
    ELSE IF s[i] # "\"" THEN FindQuoted(s, i + 1)
    ELSE LET later == {j \in (i + 1)..Len(s) : s[j] = "\""}
         IN  IF later = {} THEN <<>>
             ELSE LET j == CHOOSE k \in later : \A m \in later : k <= m
                  IN  IF j = i + 1 THEN FindQuoted(s, i + 1)
                      ELSE <<Slice(s, i + 1, j - 1)>> \o FindQuoted(s, j + 1)

\* end of the run of characters of set cs that starts at position i
\* (i - 1 when the run is empty)
RECURSIVE RunEnd(_, _, _)
RunEnd(s, i, cs) ==
    IF i <= Len(s) /\ s[i] \in cs THEN RunEnd(s, i + 1, cs) ELSE i - 1

\* [A-Z][a-z]+ at position i, followed by a word boundary: the position of
\* its last character, 0 when there is no such word
CapWordEnd(s, i) ==
    IF i + 1 <= Len(s) /\ s[i] \in UpperChars /\ s[i + 1] \in LowerChars
    THEN LET e == RunEnd(s, i + 1, LowerChars)
         IN  IF WordBoundary(s, e + 1) THEN e ELSE 0
    ELSE 0

\* (?:\s+[A-Z][a-z]+)* after a word ending at e, greedy: the end of the chain
RECURSIVE ChainEnd(_, _)
ChainEnd(s, e) ==
    LET w == RunEnd(s, e + 1, WhitespaceChars)
    IN  IF w > e /\ CapWordEnd(s, w + 1) # 0
        THEN ChainEnd(s, CapWordEnd(s, w + 1))
        ELSE e

RECURSIVE FindCaps(_, _)
\* re.findall(r"\b([A-Z][a-z]+(?:\s+[A-Z][a-z]+)*)\b", s) from position i
FindCaps(s, i) ==
    IF i > Len(s) THEN <<>>
    ELSE IF WordBoundary(s, i) /\ CapWordEnd(s, i) # 0
         THEN LET e == ChainEnd(s, CapWordEnd(s, i))
              IN  <<Slice(s, i, e)>> \o FindCaps(s, e + 1)
    ELSE FindCaps(s, i + 1)

\* 1[6-9]\d{2}|20\d{2} at position i
YearAt(s, i) ==
    /\ i + 3 <= Len(s)
    /\ \/ s[i] = "1" /\ s[i + 1] \in {"6", "7", "8", "9"}
       \/ s[i] = "2" /\ s[i + 1] = "0"
    /\ s[i + 2] \in DigitChars
    /\ s[i + 3] \in DigitChars

RECURSIVE FindYears(_, _)
\* re.findall(r"\b(1[6-9]\d{2}|20\d{2})\b", s) from position i
FindYears(s, i) ==
    IF i > Len(s) THEN <<>>
    ELSE IF WordBoundary(s, i) /\ YearAt(s, i) /\ WordBoundary(s, i + 4)
         THEN <<Slice(s, i, i + 3)>> \o FindYears(s, i + 4)
    ELSE FindYears(s, i + 1)

\* number of quoted phrases joined into the first candidate (quoted[:2])
QuotedTake == 2
\* number of capitalised phrases in the entity candidate (caps[:3])
CapsTake == 3
\* number of years in the entity candidate (years[:1])
YearsTake == 1
\* number of words in the fallback candidate (words[:12])
ShortWords == 12
\* length of the returned list (out[:3])
MaxPlans == 3

\* candidates, in the order the code appends them (lines 96-104)
Candidates(qq) ==
    LET quoted == FindQuoted(qq, 1)
        caps == FindCaps(qq, 1)
        years == FindYears(qq, 1)
        short == Strip(Join(PyPrefix(SplitWs(qq, <<>>), ShortWords), <<" ">>))
        entity_bits == PyPrefix(caps, CapsTake) \o PyPrefix(years, YearsTake)
    IN  (IF quoted # <<>>
         THEN <<Strip(Join(PyPrefix(quoted, QuotedTake), <<" ">>))>> ELSE <<>>)
        \o (IF entity_bits # <<>>
            THEN <<Strip(Join(entity_bits, <<" ">>))>> ELSE <<>>)
        \o <<short>>

RECURSIVE DeDupe_KeepRepeats(_, _)
\* DeDupe without the "c not in seen" test
DeDupe_KeepRepeats(cands, sofar) ==
    IF cands = <<>> THEN sofar
    ELSE LET c == Strip(Head(cands))
         IN  IF c # <<>>
             THEN DeDupe_KeepRepeats(Tail(cands), Append(sofar, c))
             ELSE DeDupe_KeepRepeats(Tail(cands), sofar)

RECURSIVE DeDupe(_, _)
\* lines 107-113: strip, drop empties, keep the first occurrence of each
DeDupe(cands, sofar) ==
    IF cands = <<>> THEN sofar
    ELSE LET c == Strip(Head(cands))
         IN  IF c # <<>> /\ c \notin RangeOf(sofar)
             THEN DeDupe(Tail(cands), Append(sofar, c))
             ELSE DeDupe(Tail(cands), sofar)

\* plan_queries(question) for a str question
plan_queries(qn) ==
    LET qq == Strip(qn)
    IN  IF qq = <<>> THEN <<>>
        ELSE PyPrefix(DeDupe(Candidates(qq), <<>>), MaxPlans)

(***************************************************************************)
(* extract_answer                                                          *)
(***************************************************************************)
\* Sentences keeping each segment untrimmed: [s for s in ... if s.strip()]
Sentences_Untrimmed(c) ==
    LET parts == SplitOn(c, ".", <<>>)
        blank == [i \in 1..Len(parts) |->
                    IF Strip(parts[i]) = <<>> THEN <<>> ELSE parts[i]]
    IN  NonEmptyOnly(blank)

\* [s.strip() for s in content.split(".") if s.strip()]
Sentences(c) ==
    LET parts == SplitOn(c, ".", <<>>)
    IN  NonEmptyOnly([i \in 1..Len(parts) |-> Strip(parts[i])])

\* extract_answer(content, max_sentences) for a str content
extract_answer(c, max_sentences) ==
    IF c = <<>> THEN InfoNotAvailable
    ELSE LET sentences == Sentences(c)
         IN  IF sentences = <<>> THEN InfoNotAvailable
             ELSE LET joined == Strip(Join(PyPrefix(sentences, max_sentences),
                                           <<".", " ">>))
                      answer == IF joined # <<>> /\ ~EndsWithDot(joined)
                                THEN Append(joined, ".") ELSE joined
                  IN  IF answer # <<>> THEN answer ELSE InfoNotAvailable

(***************************************************************************)
(* score_candidate                                                         *)
(***************************************************************************)
RECURSIVE AlnumRuns(_, _)
\* re.findall(r"[A-Za-z0-9]+", s)
AlnumRuns(s, cur) ==
    IF s = <<>> THEN (IF cur = <<>> THEN <<>> ELSE <<cur>>)
    ELSE IF Head(s) \notin AlnumChars
         THEN (IF cur = <<>> THEN <<>> ELSE <<cur>>) \o AlnumRuns(Tail(s), <<>>)
    ELSE AlnumRuns(Tail(s), Append(cur, Head(s)))

\* set(re.findall(r"[A-Za-z0-9]+", s.lower()))
Tokens(s) == RangeOf(AlnumRuns(Lower(s), <<>>))

\* score_candidate(question, title, snippet) for str arguments
score_candidate(qn, title, snippet) ==
    LET q_words == Tokens(qn)
        t_words == Tokens(title)
        s_words == Tokens(snippet)
    IN  2 * Cardinality(q_words \cap t_words) + Cardinality(q_words \cap s_words)

(***************************************************************************)
(* Python values: a str, an int, None, a list, or a missing mapping key    *)
(***************************************************************************)
StrV(s) == [kind |-> "str", s |-> s, n |-> 0]
IntV(n) == [kind |-> "int", s |-> <<>>, n |-> n]
None == [kind |-> "none", s |-> <<>>, n |-> 0]
\* a list of n items (only its length matters to the code)
ListV(n) == [kind |-> "list", s |-> <<>>, n |-> n]
\* the key is not in the mapping
Absent == [kind |-> "absent", s |-> <<>>, n |-> 0]

\* bool(v)
Truthy(v) ==
    CASE v.kind = "str" -> v.s # <<>>
      [] v.kind = "int" -> v.n # 0
      [] v.kind = "list" -> v.n # 0
      [] OTHER -> FALSE

\* mapping.get(key)
DictGet(v) == IF v.kind = "absent" THEN None ELSE v
\* mapping.get(key, "")
DictGetStr(v) == IF v.kind = "absent" THEN StrV(<<>>) ELSE v
\* (v or "")
OrEmpty(v) == IF Truthy(v) THEN v ELSE StrV(<<>>)
\* (a or b)
PyOr(a, b) == IF Truthy(a) THEN a ELSE b

\* a mapping input record
Record(i, qu, p, qy) ==
    [shape |-> "dict", input |-> i, question |-> qu, prompt |-> p, query |-> qy]
\* an input record that is not a mapping (a JSON string, number, list, null)
NotARecord ==
    [shape |-> "other", input |-> Absent, question |-> Absent,
     prompt |-> Absent, query |-> Absent]

(***************************************************************************)
(* get_question_text                                                       *)
(***************************************************************************)
\* the value .strip() is called on (lines 62-68)
QuestionValue(qobj) ==
    PyOr(OrEmpty(DictGet(qobj.input)),
         PyOr(OrEmpty(DictGet(qobj.question)),
              PyOr(OrEmpty(DictGet(qobj.prompt)),
                   PyOr(OrEmpty(DictGet(qobj.query)), StrV(<<>>)))))

\* get_question_text(qobj): raised is TRUE when the call raises
\* AttributeError (qobj has no .get, or the chosen value has no .strip)
get_question_text(qobj) ==
    IF qobj.shape # "dict" THEN [raised |-> TRUE, val |-> <<>>]
    ELSE IF QuestionValue(qobj).kind # "str" THEN [raised |-> TRUE, val |-> <<>>]
    ELSE [raised |-> FALSE, val |-> Strip(QuestionValue(qobj).s)]

(***************************************************************************)
(* search_wikipedia and get_wikipedia_summary                              *)
(***************************************************************************)
\* one element of query.search: a mapping with optional fields, or not a
\* mapping at all
Entry(t, p, sn) == [shape |-> "dict", title |-> t, pageid |-> p, snippet |-> sn]
NotAnEntry == [shape |-> "other", title |-> Absent, pageid |-> Absent, snippet |-> Absent]

\* srlimit passed by agent_loop (line 235)
SearchLimit == 6
\* max_sentences passed by agent_loop (line 259)
LoopSentences == 2

\* search_wikipedia: resp is what the HTTP exchange produced.  A transport
\* fault, a non-2xx status or undecodable JSON is caught and gives [];
\* a body without query.search gives the .get defaults
search_wikipedia(resp) ==
    CASE resp.kind = "fault" -> <<>>
      [] resp.kind = "nosearch" -> <<>>
      [] OTHER -> resp.search

\* get_wikipedia_summary: resp is what the HTTP exchange produced.  Every
\* exception, the AttributeError of a non-str extract included, gives ""
get_wikipedia_summary(resp) ==
    CASE resp.kind = "fault" -> <<>>
      [] resp.kind = "nopages" -> <<>>
      [] OTHER ->
           LET e == OrEmpty(DictGetStr(resp.extract))
           IN  IF e.kind = "str" THEN Strip(e.s) ELSE <<>>

(***************************************************************************)
(* ranking (lines 240-248) and int(pageid) (line 256)                      *)
(***************************************************************************)
\* the key lambda raises: r has no .get, or (title or "") / (snippet or "")
\* has no .lower
KeyRaises(r) ==
    \/ r.shape # "dict"
    \/ OrEmpty(DictGetStr(r.title)).kind # "str"
    \/ OrEmpty(DictGetStr(r.snippet)).kind # "str"

\* the key lambda: score_candidate(q, r.get("title", ""), r.get("snippet", ""))
SortKey(qq, r) ==
    score_candidate(qq, OrEmpty(DictGetStr(r.title)).s,
                        OrEmpty(DictGetStr(r.snippet)).s)

RECURSIVE InsertDesc_TiesFirst(_, _, _)
\* InsertDesc putting r in front of the items with an equal key
InsertDesc_TiesFirst(sorted, r, qq) ==
    IF sorted = <<>> THEN <<r>>
    ELSE IF SortKey(qq, Head(sorted)) > SortKey(qq, r)
         THEN <<Head(sorted)>> \o InsertDesc_TiesFirst(Tail(sorted), r, qq)
    ELSE <<r>> \o sorted

RECURSIVE InsertDesc(_, _, _)
\* insert r behind every item whose key is at least r's
InsertDesc(sorted, r, qq) ==
    IF sorted = <<>> THEN <<r>>
    ELSE IF SortKey(qq, Head(sorted)) >= SortKey(qq, r)
         THEN <<Head(sorted)>> \o InsertDesc(Tail(sorted), r, qq)
    ELSE <<r>> \o sorted

RECURSIVE SortedDesc(_, _, _)
\* sorted(rs, key=..., reverse=True): descending, equal keys keep their order
SortedDesc(rs, qq, acc) ==
    IF rs = <<>> THEN acc
    ELSE SortedDesc(Tail(rs), qq, InsertDesc(acc, Head(rs), qq))

RECURSIVE DecimalValue(_, _)
DecimalValue(s, acc) ==
    IF s = <<>> THEN acc ELSE DecimalValue(Tail(s), 10 * acc + DigitVal(Head(s)))

\* int(v) raises: None or a list (TypeError), a str that is not a decimal
\* literal (ValueError)
IntRaises(v) ==
    CASE v.kind = "int" -> FALSE
      [] v.kind = "str" -> Strip(v.s) = <<>> \/ ~(RangeOf(Strip(v.s)) \subseteq DigitChars)
      [] OTHER -> TRUE

\* int(v) when it does not raise
PyInt(v) == IF v.kind = "int" THEN v.n ELSE DecimalValue(Strip(v.s), 0)

(***************************************************************************)
(* Bounds and input sets                                                   *)
(***************************************************************************)
\* records in one batch
MaxRecords == 2
\* entries in one search response
MaxResults == 2
\* pieces concatenated into a question given to plan_queries
MaxPieces == 5
\* pieces concatenated into a content given to extract_answer
MaxContentPieces == 5
\* largest max_sentences given to extract_answer
MaxSentences == 3

SeqsUpTo(S, n) == UNION {[1..k -> S] : k \in 0..n}

RECURSIVE Repeat(_, _)
Repeat(s, n) == IF n <= 0 THEN <<>> ELSE s \o Repeat(s, n - 1)

sB == <<"b">>
sAb == <<"A","b">>
\* "b" Ab : three candidates (quoted, entity, fallback)
sQuotedEntity == <<"\"","b","\""," ","A","b">>
\* Ab b : two candidates (entity, fallback)
sEntity == <<"A","b"," ","b">>

\* question values agent_loop is called with directly
QuestionValues ==
    {StrV(sQuotedEntity), StrV(sEntity), StrV(sB), StrV(<<" ">>), StrV(<<>>),
     None, IntV(5), ListV(1)}

\* input records of a batch
Records ==
    {Record(Absent, StrV(<<" ", "b">>), Absent, Absent),
     Record(Absent, Absent, Absent, Absent),
     Record(IntV(5), Absent, Absent, Absent),
     NotARecord}

\* elements of query.search
Entries ==
    {Entry(StrV(sB), IntV(7), Absent),
     Entry(StrV(sAb), StrV(<<"8">>), StrV(sB)),
     Entry(StrV(sB), Absent, StrV(sAb)),
     Entry(StrV(sAb), IntV(0), Absent),
     Entry(StrV(sB), StrV(<<"x">>), StrV(sB)),
     Entry(IntV(5), IntV(7), Absent),
     NotAnEntry}

\* outcomes of the search HTTP exchange
SearchResponses ==
    {[kind |-> "fault", search |-> <<>>], [kind |-> "nosearch", search |-> <<>>]}
    \cup {[kind |-> "ok", search |-> rs] : rs \in SeqsUpTo(Entries, MaxResults)}

\* values of the extract field
Extracts ==
    {Absent, IntV(5), StrV(<<" ", ".", " ">>), StrV(sB),
     StrV(<<"b", ".", " ", "A", "b", ".", "b", ".">>),
     StrV(InfoNotAvailable)}

\* outcomes of the summary HTTP exchange
SummaryResponses ==
    {[kind |-> "fault", extract |-> Absent], [kind |-> "nopages", extract |-> Absent]}
    \cup {[kind |-> "ok", extract |-> e] : e \in Extracts}

(***************************************************************************)
(* agent_loop                                                              *)
(***************************************************************************)
\* entries of calls: the plan step, a search (its query, its limit and the
\* number of results it returned) and a summary fetch (its pageid and
\* whether the answer extracted from its summary is not the sentinel)
PlanEvent ==
    [op |-> "plan", query |-> <<>>, limit |-> 0, hits |-> 0, pageid |-> 0,
     meaningful |-> FALSE]
SearchEvent(query, limit, hits) ==
    [op |-> "search", query |-> query, limit |-> limit, hits |-> hits, pageid |-> 0,
     meaningful |-> FALSE]
FetchEvent(pageid, text) ==
    [op |-> "fetch", query |-> <<>>, limit |-> 0, hits |-> 0, pageid |-> pageid,
     meaningful |-> extract_answer(text, LoopSentences) # InfoNotAvailable]

\* lines 221-225: q = (question or "").strip(); an empty q returns at once
Enter ==
    /\ pc = "entry"
    /\ IF Truthy(question) /\ question.kind # "str"
       THEN /\ pc' = "except"
            /\ UNCHANGED <<q, ret>>
       ELSE LET qq == Strip(OrEmpty(question).s)
            IN  /\ q' = qq
                /\ IF qq = <<>>
                   THEN ret' = InfoNotAvailable /\ pc' = "returned"
                   ELSE ret' = ret /\ pc' = "plan"
    /\ UNCHANGED <<question, plans, step, results, ranked, content, best_answer, calls>>
    /\ UNCHANGED batchVars
    /\ UNCHANGED fnVars

\* lines 227-228: plans = plan_queries(q); best_answer = ""
Plan ==
    /\ pc = "plan"
    /\ plans' = plan_queries(q)
    /\ best_answer' = <<>>
    /\ step' = 0
    /\ calls' = Append(calls, PlanEvent)
    /\ pc' = "loop"
    /\ UNCHANGED <<question, q, results, ranked, content, ret>>
    /\ UNCHANGED batchVars
    /\ UNCHANGED fnVars

\* Search leaving the loop when a search returns nothing
Search_StopOnEmpty ==
    /\ pc = "loop"
    /\ step < Len(plans)
    /\ \E resp \in SearchResponses :
          /\ results' = search_wikipedia(resp)
          /\ calls' = Append(calls, SearchEvent(plans[step + 1], SearchLimit,
                                                Len(search_wikipedia(resp))))
          /\ pc' = IF search_wikipedia(resp) = <<>> THEN "return" ELSE "rank"
    /\ step' = step + 1
    /\ ranked' = <<>>
    /\ content' = <<>>
    /\ UNCHANGED <<question, q, plans, best_answer, ret>>
    /\ UNCHANGED batchVars
    /\ UNCHANGED fnVars

\* lines 230-237: take the next candidate and search it; no results: continue.
\* ranked and content of an earlier iteration are dead here and are cleared
Search ==
    /\ pc = "loop"
    /\ step < Len(plans)
    /\ \E resp \in SearchResponses :
          /\ results' = search_wikipedia(resp)
          /\ calls' = Append(calls, SearchEvent(plans[step + 1], SearchLimit,
                                                Len(search_wikipedia(resp))))
          /\ pc' = IF search_wikipedia(resp) = <<>> THEN "loop" ELSE "rank"
    /\ step' = step + 1
    /\ ranked' = <<>>
    /\ content' = <<>>
    /\ UNCHANGED <<question, q, plans, best_answer, ret>>
    /\ UNCHANGED batchVars
    /\ UNCHANGED fnVars

\* Rank treating a top entry without pageid as a fault
Rank_MissingPageidFaults ==
    /\ pc = "rank"
    /\ IF \E i \in 1..Len(results) : KeyRaises(results[i])
       THEN /\ pc' = "except"
            /\ ranked' = ranked
       ELSE /\ ranked' = SortedDesc(results, q, <<>>)
            /\ pc' = IF Truthy(DictGet(SortedDesc(results, q, <<>>)[1].pageid))
                     THEN "fetch" ELSE "except"
    /\ UNCHANGED <<question, q, plans, step, results, content, best_answer, ret, calls>>
    /\ UNCHANGED batchVars
    /\ UNCHANGED fnVars

\* lines 240-253: rerank, take the top entry, skip it when it has no pageid
Rank ==
    /\ pc = "rank"
    /\ IF \E i \in 1..Len(results) : KeyRaises(results[i])
       THEN /\ pc' = "except"
            /\ ranked' = ranked
       ELSE /\ ranked' = SortedDesc(results, q, <<>>)
            /\ pc' = IF Truthy(DictGet(SortedDesc(results, q, <<>>)[1].pageid))
                     THEN "fetch" ELSE "loop"
    /\ UNCHANGED <<question, q, plans, step, results, content, best_answer, ret, calls>>
    /\ UNCHANGED batchVars
    /\ UNCHANGED fnVars

\* Fetch taking the pageid of the last ranked entry
Fetch_LastRanked ==
    /\ pc = "fetch"
    /\ IF IntRaises(DictGet(ranked[Len(ranked)].pageid))
       THEN /\ pc' = "except"
            /\ UNCHANGED <<content, calls>>
       ELSE \E resp \in SummaryResponses :
               /\ content' = get_wikipedia_summary(resp)
               /\ calls' = Append(calls, FetchEvent(PyInt(DictGet(ranked[Len(ranked)].pageid)),
                                                  get_wikipedia_summary(resp)))
               /\ pc' = "extract"
    /\ UNCHANGED <<question, q, plans, step, results, ranked, best_answer, ret>>
    /\ UNCHANGED batchVars
    /\ UNCHANGED fnVars

\* line 256: content = get_wikipedia_summary(int(pageid))
Fetch ==
    /\ pc = "fetch"
    /\ IF IntRaises(DictGet(ranked[1].pageid))
       THEN /\ pc' = "except"
            /\ UNCHANGED <<content, calls>>
       ELSE \E resp \in SummaryResponses :
               /\ content' = get_wikipedia_summary(resp)
               /\ calls' = Append(calls, FetchEvent(PyInt(DictGet(ranked[1].pageid)),
                                                  get_wikipedia_summary(resp)))
               /\ pc' = "extract"
    /\ UNCHANGED <<question, q, plans, step, results, ranked, best_answer, ret>>
    /\ UNCHANGED batchVars
    /\ UNCHANGED fnVars

\* Reflect keeping the answer but going on to the next candidate
Reflect_NoBreak ==
    /\ pc = "extract"
    /\ IF extract_answer(content, LoopSentences) # InfoNotAvailable
       THEN /\ best_answer' = extract_answer(content, LoopSentences)
            /\ pc' = "loop"
       ELSE /\ best_answer' = best_answer
            /\ pc' = "loop"
    /\ UNCHANGED <<question, q, plans, step, results, ranked, content, ret, calls>>
    /\ UNCHANGED batchVars
    /\ UNCHANGED fnVars

\* lines 259-264: extract the answer; a meaningful one is kept and ends the loop
Reflect ==
    /\ pc = "extract"
    /\ IF extract_answer(content, LoopSentences) # InfoNotAvailable
       THEN /\ best_answer' = extract_answer(content, LoopSentences)
            /\ pc' = "return"
       ELSE /\ best_answer' = best_answer
            /\ pc' = "loop"
    /\ UNCHANGED <<question, q, plans, step, results, ranked, content, ret, calls>>
    /\ UNCHANGED batchVars
    /\ UNCHANGED fnVars

\* line 266, reached by the break or when plans is exhausted
Return ==
    /\ \/ pc = "return"
       \/ pc = "loop" /\ step >= Len(plans)
    /\ ret' = IF best_answer # <<>> THEN best_answer ELSE InfoNotAvailable
    /\ pc' = "returned"
    /\ UNCHANGED <<question, q, plans, step, results, ranked, content, best_answer, calls>>
    /\ UNCHANGED batchVars
    /\ UNCHANGED fnVars

\* Except letting the exception leave agent_loop
Except_Propagate ==
    /\ pc = "except"
    /\ ret' = ret
    /\ pc' = "raised"
    /\ UNCHANGED <<question, q, plans, step, results, ranked, content, best_answer, calls>>
    /\ UNCHANGED batchVars
    /\ UNCHANGED fnVars

\* lines 268-270: except Exception: return "Error processing question"
Except ==
    /\ pc = "except"
    /\ ret' = ErrorProcessing
    /\ pc' = "returned"
    /\ UNCHANGED <<question, q, plans, step, results, ranked, content, best_answer, calls>>
    /\ UNCHANGED batchVars
    /\ UNCHANGED fnVars

(***************************************************************************)
(* build_answers                                                           *)
(***************************************************************************)
\* no agent_loop call is in progress
IdleLoop ==
    /\ pc = "idle"
    /\ question = None
    /\ q = <<>>
    /\ plans = <<>>
    /\ step = 0
    /\ results = <<>>
    /\ ranked = <<>>
    /\ content = <<>>
    /\ best_answer = <<>>
    /\ ret = <<>>
    /\ calls = <<>>

\* the frame of an agent_loop call is dropped
EndCall ==
    /\ pc' = "idle"
    /\ question' = None
    /\ q' = <<>>
    /\ plans' = <<>>
    /\ step' = 0
    /\ results' = <<>>
    /\ ranked' = <<>>
    /\ content' = <<>>
    /\ best_answer' = <<>>
    /\ ret' = <<>>
    /\ calls' = <<>>

\* the locals of a fresh agent_loop call
FreshCall(qv) ==
    /\ pc' = "entry"
    /\ question' = qv
    /\ q' = <<>>
    /\ plans' = <<>>
    /\ step' = 0
    /\ results' = <<>>
    /\ ranked' = <<>>
    /\ content' = <<>>
    /\ best_answer' = <<>>
    /\ ret' = <<>>
    /\ calls' = <<>>

\* lines 278-282: the next record: get_question_text, then call agent_loop.
\* An exception of get_question_text leaves build_answers
BuildNext ==
    /\ bpc = "loop"
    /\ idx < Len(questions)
    /\ IF get_question_text(questions[idx + 1]).raised
       THEN /\ bpc' = "raised"
            /\ UNCHANGED loopVars
       ELSE /\ bpc' = "call"
            /\ FreshCall(StrV(get_question_text(questions[idx + 1]).val))
    /\ UNCHANGED <<caller, questions, idx, answers>>
    /\ UNCHANGED fnVars

\* line 284: answers.append({"output": answer}); the frame of the finished
\* agent_loop call is gone
BuildAppend ==
    /\ bpc = "call"
    /\ pc = "returned"
    /\ answers' = Append(answers, [output |-> ret])
    /\ idx' = idx + 1
    /\ bpc' = "loop"
    /\ EndCall
    /\ UNCHANGED <<caller, questions>>
    /\ UNCHANGED fnVars

\* line 285: return answers
BuildDone ==
    /\ bpc = "loop"
    /\ idx >= Len(questions)
    /\ bpc' = "done"
    /\ UNCHANGED <<caller, questions, idx, answers>>
    /\ UNCHANGED loopVars
    /\ UNCHANGED fnVars

(***************************************************************************)
(* Specification: build_answers over a batch, or agent_loop called         *)
(* directly with any question value                                        *)
(***************************************************************************)
IdleBatch ==
    /\ caller = "none"
    /\ questions = <<>>
    /\ idx = 0
    /\ answers = <<>>
    /\ bpc = "off"

IdleFn ==
    /\ fpc = "off"
    /\ arg = <<>>
    /\ arg2 = 0
    /\ out = <<>>

InitBatch ==
    /\ caller = "build_answers"
    /\ questions \in SeqsUpTo(Records, MaxRecords)
    /\ idx = 0
    /\ answers = <<>>
    /\ bpc = "loop"
    /\ IdleLoop
    /\ IdleFn

InitDirect ==
    /\ caller = "direct"
    /\ questions = <<>>
    /\ idx = 0
    /\ answers = <<>>
    /\ bpc = "off"
    /\ pc = "entry"
    /\ question \in QuestionValues
    /\ q = <<>>
    /\ plans = <<>>
    /\ step = 0
    /\ results = <<>>
    /\ ranked = <<>>
    /\ content = <<>>
    /\ best_answer = <<>>
    /\ ret = <<>>
    /\ calls = <<>>
    /\ IdleFn

Init == InitBatch \/ InitDirect

Next ==
    \/ BuildNext
    \/ BuildAppend
    \/ BuildDone
    \/ Enter
    \/ Plan
    \/ Search
    \/ Rank
    \/ Fetch
    \/ Reflect
    \/ Return
    \/ Except

Spec == Init /\ [][Next]_vars

(***************************************************************************)
(* Specifications of the pure functions: the argument is drawn from a      *)
(* bounded set and the function is applied to it                           *)
(***************************************************************************)
\* values of one field of an input record
FieldValues ==
    {Absent, None, StrV(<<>>), StrV(<<" ">>), StrV(sB),
     StrV(<<" ", "A", "b", " ">>), IntV(0), IntV(5)}

TextRecords ==
    {Record(i, qu, p, qy) : i \in FieldValues, qu \in FieldValues,
                            p \in FieldValues, qy \in FieldValues}
    \cup {NotARecord}

CallText ==
    /\ fpc = "text"
    /\ out' = get_question_text(arg)
    /\ fpc' = "done"
    /\ UNCHANGED <<arg, arg2>>
    /\ UNCHANGED batchVars
    /\ UNCHANGED loopVars

InitText ==
    /\ IdleBatch
    /\ IdleLoop
    /\ fpc = "text"
    /\ arg \in TextRecords
    /\ arg2 = 0
    /\ out = [raised |-> FALSE, val |-> <<>>]

SpecText == InitText /\ [][CallText]_vars

\* pieces a question is built from
PlanPieces == {<<"A">>, <<"b">>, <<" ">>, <<"\"">>, <<"1", "9", "9", "9">>}

\* "World War II" started in 1939
sWorldWar ==
    <<"\"","W","o","r","l","d"," ","W","a","r"," ","I","I","\""," ",
      "s","t","a","r","t","e","d"," ","i","n"," ","1","9","3","9">>
\* "b" and "Ab c" in 2001
sTwoQuoted ==
    <<"\"","b","\""," ","a","n","d"," ","\"","A","b"," ","c","\""," ",
      "i","n"," ","2","0","0","1">>
\* " b" "c " Ab
sPaddedQuotes == <<"\""," ","b","\""," ","\"","c"," ","\""," ","A","b">>
\* fourteen one-letter words
sManyWords == Repeat(<<"b", " ", "c", " ">>, 7)
\* Ab Cd Ef. Gh, Ij; Kl 1999 2001
sManyEntities ==
    <<"A","b"," ","C","d"," ","E","f","."," ","G","h",","," ","I","j",";"," ",
      "K","l"," ","1","9","9","9"," ","2","0","0","1">>

PlanInputs ==
    {Join(ps, <<>>) : ps \in SeqsUpTo(PlanPieces, MaxPieces)}
    \cup {sWorldWar, sTwoQuoted, sPaddedQuotes, sManyWords, sManyEntities}

CallPlan ==
    /\ fpc = "plan"
    /\ out' = plan_queries(arg)
    /\ fpc' = "done"
    /\ UNCHANGED <<arg, arg2>>
    /\ UNCHANGED batchVars
    /\ UNCHANGED loopVars

InitPlan ==
    /\ IdleBatch
    /\ IdleLoop
    /\ fpc = "plan"
    /\ arg \in PlanInputs
    /\ arg2 = 0
    /\ out = <<>>

SpecPlan == InitPlan /\ [][CallPlan]_vars

\* pieces a content is built from
ContentPieces == {<<"A">>, <<"b">>, <<" ">>, <<".">>}

\* A. B. C. D.
sFourSentences == <<"A","."," ","B","."," ","C","."," ","D",".">>

Contents ==
    {Join(ps, <<>>) : ps \in SeqsUpTo(ContentPieces, MaxContentPieces)}
    \cup {sFourSentences, InfoNotAvailable}

CallExtract ==
    /\ fpc = "extract"
    /\ out' = extract_answer(arg, arg2)
    /\ fpc' = "done"
    /\ UNCHANGED <<arg, arg2>>
    /\ UNCHANGED batchVars
    /\ UNCHANGED loopVars

InitExtract ==
    /\ IdleBatch
    /\ IdleLoop
    /\ fpc = "extract"
    /\ arg \in Contents
    /\ arg2 \in (0 - 2)..MaxSentences
    /\ out = <<>>

SpecExtract == InitExtract /\ [][CallExtract]_vars

(***************************************************************************)
(* Properties of agent_loop and build_answers (specification Spec)         *)
(***************************************************************************)
\* positions inside a running agent_loop call
ActivePcs == {"entry", "plan", "loop", "rank", "fetch", "extract", "return", "except"}

\* a well-shaped answer: non-empty, a sentinel or a period-terminated excerpt
AnswerShape(r) ==
    /\ r # <<>>
    /\ \/ r = InfoNotAvailable
       \/ r = ErrorProcessing
       \/ EndsWithDot(r)

\* a bound on the number of steps a call still has to take
PcRank ==
    CASE pc = "entry" -> 8
      [] pc = "plan" -> 7
      [] pc = "rank" -> 5
      [] pc = "fetch" -> 4
      [] pc = "extract" -> 3
      [] pc = "loop" -> 2
      [] pc = "return" -> 1
      [] pc = "except" -> 1
      [] OTHER -> 0
Measure == 10 * (3 - step) + PcRank

OpEvents(op) == SelectSeq(calls, LAMBDA e : e.op = op)
SearchQueries == [i \in 1..Len(OpEvents("search")) |-> OpEvents("search")[i].query]
LastCall(cs) == cs[Len(cs)]

\* the text of a str question, "" for any other value
QuestionText == IF question.kind = "str" THEN question.s ELSE <<>>

\* the first entry with the highest score against the question
BestIndex(rs, qn) ==
    CHOOSE i \in 1..Len(rs) :
        \A j \in 1..Len(rs) :
            /\ SortKey(qn, rs[j]) <= SortKey(qn, rs[i])
            /\ j < i => SortKey(qn, rs[j]) < SortKey(qn, rs[i])

\* every step of a running call uses up some of the budget
BudgetDecreases == pc \in ActivePcs => Measure > Measure'

\* C1: whatever the question value and whatever the search and summary
\* exchanges produce, a call of agent_loop never lets an exception out, every
\* step of it uses up a bounded budget (so it terminates), and the value it
\* returns is a non-empty string: one of the two sentinels or an excerpt
\* ending with a period.
AnswerAlwaysReturned ==
    /\ [](/\ pc # "raised"
          /\ Measure >= 0
          /\ pc = "returned" => AnswerShape(ret))
    /\ [][BudgetDecreases]_vars

\* C1 witness: a fault inside the loop, after network calls, was turned into
\* the error sentinel
FaultBecameSentinel ==
    /\ pc = "returned"
    /\ ret = ErrorProcessing
    /\ Len(calls) >= 3

\* C2: a summary fetch whose extracted answer is not the sentinel is the last
\* network call of the run (no later candidate is searched or fetched), and
\* that answer is the one kept and returned.
FirstAnswerWins ==
    \A i \in 1..Len(calls) :
        (calls[i].op = "fetch" /\ calls[i].meaningful) =>
            /\ i = Len(calls)
            /\ pc \in {"extract", "return", "returned"}
            /\ pc = "return" => best_answer = extract_answer(content, 2)
            /\ pc = "returned" =>
                  /\ ret = extract_answer(content, 2)
                  /\ ret # InfoNotAvailable

\* C2 witness: the first of three candidates gave an answer and the run
\* returned it with two candidates untried
ReturnedAtFirstCandidate ==
    /\ pc = "returned"
    /\ Len(plans) = 3
    /\ step = 1
    /\ Len(calls) = 3
    /\ LastCall(calls).meaningful
    /\ EndsWithDot(ret)

\* every search of the run so far came back empty
AllSearchesEmpty == \A i \in 1..Len(calls) : calls[i].op = "search" => calls[i].hits = 0

\* C3: for a non-empty question whose searches all come back empty, the run
\* has searched every planned candidate, in planner order, fetched nothing
\* and returns "Information not available".
EmptySearchesGiveNotAvailable ==
    (/\ pc = "returned"
     /\ question.kind = "str"
     /\ Strip(question.s) # <<>>
     /\ AllSearchesEmpty) =>
        /\ ret = InfoNotAvailable
        /\ SearchQueries = plan_queries(question.s)
        /\ OpEvents("fetch") = <<>>

\* C3 witness: three candidates, three empty searches, the sentinel returned
ThreeEmptySearches ==
    /\ pc = "returned"
    /\ Len(plans) = 3
    /\ Len(OpEvents("search")) = 3
    /\ AllSearchesEmpty
    /\ ret = InfoNotAvailable

\* C4: build_answers never stops on a record: when it ends it has produced
\* one well-shaped answer per input record, in order.
OneAnswerPerRecord ==
    /\ bpc # "raised"
    /\ Len(answers) = idx
    /\ bpc = "done" =>
          /\ Len(answers) = Len(questions)
          /\ \A i \in 1..Len(answers) : AnswerShape(answers[i].output)

\* C8: the entry agent_loop takes from a non-empty result list is the first
\* one among those with the highest score against the question, the ranked
\* list is in descending score order, and ranking leaves the result list
\* as the search returned it.
TopRankedIsFirstBest ==
    /\ [](ranked # <<>> =>
            /\ Len(ranked) = Len(results)
            /\ ranked[1] = results[BestIndex(results, QuestionText)]
            /\ \A i \in 1..Len(ranked) : \A j \in i..Len(ranked) :
                  SortKey(QuestionText, ranked[i]) >= SortKey(QuestionText, ranked[j]))
    /\ [][pc = "rank" => results' = results]_vars

\* C8 witness: two different entries tie for the highest score and the one
\* that arrived first is taken
TieKeepsArrivalOrder ==
    /\ pc = "fetch"
    /\ Len(results) = 2
    /\ results[1] # results[2]
    /\ SortKey(QuestionText, results[1]) = SortKey(QuestionText, results[2])
    /\ SortKey(QuestionText, results[1]) > 0
    /\ ranked[1] = results[1]

\* C9 (states): the plan step is the first entry of calls and the only one;
\* an empty question makes no call; the searches are the first candidates of
\* the plan in planner order, at most 3, each with limit 6; a fetch directly
\* follows a search that returned results; there are no more fetches than
\* searches.
CallsOrdered ==
    /\ calls # <<>> => calls[1].op = "plan" /\ plans = plan_queries(QuestionText)
    /\ \A i \in 2..Len(calls) : calls[i].op # "plan"
    /\ Strip(QuestionText) = <<>> => calls = <<>>
    /\ Len(OpEvents("search")) <= 3
    /\ SearchQueries = PyPrefix(plans, Len(OpEvents("search")))
    /\ \A i \in 1..Len(calls) : calls[i].op = "search" => calls[i].limit = 6
    /\ \A i \in 1..Len(calls) :
          calls[i].op = "fetch" =>
              /\ i > 1
              /\ calls[i - 1].op = "search"
              /\ calls[i - 1].hits > 0
    /\ Len(OpEvents("fetch")) <= Len(OpEvents("search"))

\* C9 (steps): a step that issues a fetch is taken when the last call was the
\* search of the current candidate, that search returned the results at
\* hand, their top-ranked entry carries a pageid that int() accepts, and the
\* fetch is for it.
FetchFollowsSearch ==
    (Len(calls') = Len(calls) + 1 /\ LastCall(calls').op = "fetch") =>
        /\ results # <<>>
        /\ LastCall(calls).op = "search"
        /\ LastCall(calls).query = plans[step]
        /\ LastCall(calls).hits = Len(results)
        /\ results[BestIndex(results, QuestionText)].pageid.kind # "absent"
        /\ ~IntRaises(results[BestIndex(results, QuestionText)].pageid)
        /\ LastCall(calls').pageid =
              PyInt(results[BestIndex(results, QuestionText)].pageid)

\* C9: the candidate list is computed once before any network call, an empty
\* question makes no call, searches go in planner order (at most 3, limit 6)
\* and a fetch is issued only directly after the search of the same
\* candidate returned results whose top-ranked entry carries a pageid, for
\* that pageid.
NetworkDiscipline == []CallsOrdered /\ [][FetchFollowsSearch]_vars

\* C9 witness: three searches, the first two each followed by a fetch
TwoFetchesThreeSearches ==
    /\ Len(OpEvents("search")) = 3
    /\ Len(OpEvents("fetch")) = 2
    /\ calls[3].op = "fetch"
    /\ calls[5].op = "fetch"

\* a search result as the data model describes it
WellFormedEntry(r) ==
    /\ r.shape = "dict"
    /\ r.title.kind = "str"
    /\ r.pageid.kind \in {"int", "absent"}
    /\ r.snippet.kind \in {"str", "absent"}

\* C10: the except branch is entered, and the error sentinel returned, only
\* when the question is not a string or the results at hand hold a
\* malformed entry; with well-formed data (missing pageid, snippet or
\* extract included) the answer is never the error sentinel.
ErrorOnlyOnFault ==
    (pc = "except" \/ (pc = "returned" /\ ret = ErrorProcessing)) =>
        \/ question.kind # "str"
        \/ \E i \in 1..Len(results) : ~WellFormedEntry(results[i])

\* C10 witness: the top entry of well-formed results has neither pageid nor
\* snippet; the candidate was skipped and the run ended without the error
\* sentinel
MissingFieldsSkipped ==
    /\ pc = "returned"
    /\ question.kind = "str"
    /\ results # <<>>
    /\ \A i \in 1..Len(results) : WellFormedEntry(results[i])
    /\ ranked # <<>>
    /\ ranked[1].pageid.kind = "absent"
    /\ \E i \in 1..Len(results) : results[i].snippet.kind = "absent"
    /\ ret = InfoNotAvailable

(***************************************************************************)
(* Properties of get_question_text (specification SpecText)                *)
(***************************************************************************)
\* the fields of a record in priority order
KeyOrder(r) == <<r.input, r.question, r.prompt, r.query>>

\* the text under the first key that holds a non-empty string, "" if none
FirstKeyText(r) ==
    LET held == {i \in 1..4 : KeyOrder(r)[i].kind = "str" /\ KeyOrder(r)[i].s # <<>>}
    IN  IF r.shape # "dict" \/ held = {} THEN <<>>
        ELSE KeyOrder(r)[CHOOSE i \in held : \A j \in held : i <= j].s

\* C5: for every input record get_question_text returns, without raising,
\* the trimmed text under the first of the keys input, question, prompt,
\* query, and the empty string for a record without them or of another shape.
QuestionTextTotal ==
    fpc = "done" =>
        /\ ~out.raised
        /\ out.val = Strip(FirstKeyText(arg))

(***************************************************************************)
(* Properties of plan_queries (specification SpecPlan)                     *)
(***************************************************************************)
\* the three candidates as section 4.1 lists them, before filtering
ListedCandidates(qn) ==
    LET qq == Strip(qn)
        quoted == FindQuoted(qq, 1)
        bits == PyPrefix(FindCaps(qq, 1), 3) \o PyPrefix(FindYears(qq, 1), 1)
    IN  (IF quoted # <<>> THEN <<Join(PyPrefix(quoted, 2), <<" ">>)>> ELSE <<>>)
        \o (IF bits # <<>> THEN <<Join(bits, <<" ">>)>> ELSE <<>>)
        \o <<Join(PyPrefix(SplitWs(qq, <<>>), 12), <<" ">>)>>

\* the positions of cs whose trimmed entry is non-empty and not seen before
KeptPositions(cs) ==
    {i \in 1..Len(cs) :
        /\ Strip(cs[i]) # <<>>
        /\ \A j \in 1..(i - 1) : Strip(cs[j]) # Strip(cs[i])}

\* the k-th smallest element of a set of numbers
KthOf(S, k) == CHOOSE i \in S : Cardinality({j \in S : j <= i}) = k

\* at most 3 entries, no duplicates, no empty or untrimmed entry, nothing
\* for an empty question, and the listed candidates in their fixed order
PlanShape(qn, plan) ==
    /\ Len(plan) <= 3
    /\ \A i \in 1..Len(plan) : \A j \in 1..Len(plan) : plan[i] = plan[j] => i = j
    /\ \A i \in 1..Len(plan) : plan[i] # <<>> /\ Strip(plan[i]) = plan[i]
    /\ Strip(qn) = <<>> => plan = <<>>
    /\ Strip(qn) # <<>> =>
          LET cs == ListedCandidates(qn)
              kept == KeptPositions(cs)
          IN  /\ Len(plan) = Cardinality(kept)
              /\ \A k \in 1..Len(plan) : plan[k] = Strip(cs[KthOf(kept, k)])

\* C6 as stated: the plan has the shape above and, when the question has
\* double-quoted phrases, its first entry is the first two joined by a space.
QuotedPhrasesLeadPlan ==
    fpc = "done" =>
        /\ PlanShape(arg, out)
        /\ FindQuoted(Strip(arg), 1) # <<>> =>
              /\ out # <<>>
              /\ out[1] = Join(PyPrefix(FindQuoted(Strip(arg), 1), 2), <<" ">>)

\* C6 amended: the plan has the shape above and, when the question has
\* double-quoted phrases, its first entry is the first two joined by a space
\* and trimmed, provided that trimmed string is not empty; a quoted
\* candidate that is only whitespace is dropped.
TrimmedQuotedPhrasesLeadPlan ==
    fpc = "done" =>
        /\ PlanShape(arg, out)
        /\ LET quoted == FindQuoted(Strip(arg), 1)
               joined == Strip(Join(PyPrefix(quoted, 2), <<" ">>))
           IN  /\ (quoted # <<>> /\ joined # <<>>) => (out # <<>> /\ out[1] = joined)
               /\ (quoted # <<>> /\ joined = <<>>) =>
                     \A i \in 1..Len(out) : out[i] # Join(PyPrefix(quoted, 2), <<" ">>)

\* C6 witness: two quoted phrases with padding, an entity and a fallback:
\* the plan has three entries led by the two phrases joined and trimmed
PaddedQuotesPlanned ==
    /\ fpc = "done"
    /\ Len(FindQuoted(Strip(arg), 1)) >= 2
    /\ Len(out) = 3
    /\ out[1] = Strip(Join(PyPrefix(FindQuoted(Strip(arg), 1), 2), <<" ">>))
    /\ out[1] # Join(PyPrefix(FindQuoted(Strip(arg), 1), 2), <<" ">>)

(***************************************************************************)
(* Properties of extract_answer (specification SpecExtract)                *)
(***************************************************************************)
\* positions around the pieces of c: before the first character, every
\* period, and after the last character
Cuts(c) == {0, Len(c) + 1} \cup {i \in 1..Len(c) : c[i] = "."}

\* the trimmed piece of c that starts after cut a
PieceAfter(c, a) ==
    LET b == CHOOSE k \in Cuts(c) : k > a /\ \A m \in Cuts(c) : m > a => k <= m
    IN  Strip(Slice(c, a + 1, b - 1))

\* the cuts followed by a non-empty piece
SegmentStarts(c) == {a \in Cuts(c) : a <= Len(c) /\ PieceAfter(c, a) # <<>>}

\* the first k non-empty trimmed segments joined with ". " and closed by "."
FirstSegments(c, k) ==
    Append(Join([i \in 1..k |-> PieceAfter(c, KthOf(SegmentStarts(c), i))],
                <<".", " ">>), ".")

\* exactly one trailing period
OneTrailingDot(a) == Len(a) >= 2 /\ a[Len(a)] = "." /\ a[Len(a) - 1] # "."

\* C7 as stated, for a maxSentences that is a count (0 or more): the
\* sentinel for a content without a non-empty segment, otherwise the first
\* maxSentences segments (all when there are fewer) joined and closed by
\* one period.
ExtractTakesFirstSentences ==
    (fpc = "done" /\ arg2 >= 0) =>
        LET n == Cardinality(SegmentStarts(arg))
            take == IF arg2 < n THEN arg2 ELSE n
        IN  IF n = 0 THEN out = InfoNotAvailable
            ELSE out = FirstSegments(arg, take) /\ EndsWithDot(out)

\* C7 amended: the sentinel for a content without a non-empty segment and
\* when sentences[:maxSentences] is empty (maxSentences = 0, or negative
\* with no more than -maxSentences segments); otherwise the segments
\* sentences[:maxSentences] (the first maxSentences for a positive value,
\* all but the last -maxSentences for a negative one) joined with ". " and
\* ending with exactly one period.
ExtractTakesSlicedSentences ==
    fpc = "done" =>
        LET n == Cardinality(SegmentStarts(arg))
            take == IF arg2 >= 0 THEN (IF arg2 < n THEN arg2 ELSE n)
                    ELSE (IF n + arg2 > 0 THEN n + arg2 ELSE 0)
        IN  IF n = 0 \/ take = 0 THEN out = InfoNotAvailable
            ELSE out = FirstSegments(arg, take) /\ OneTrailingDot(out)

\* C7 witness: "A. B. C. D." with 2 gives "A. B."
FourSentencesCutToTwo ==
    /\ fpc = "done"
    /\ arg = sFourSentences
    /\ arg2 = 2
    /\ out = <<"A", ".", " ", "B", ".">>

====
